---- MODULE Spec2Model ----
(***************************************************************************)
(* Model of femexamples/frequency_cylindrical_shell.py: the procedure      *)
(* setup(doc=None, solvertype="ccxtools") that builds the cylindrical      *)
(* shell frequency analysis in a FreeCAD document.                         *)
(*                                                                         *)
(* The procedure is sequential.  pc is the position inside setup, one      *)
(* action per statement group.  Calls into the host (document recompute,   *)
(* Draft.downgrade, removeObject, the Gmsh mesher) are the only places     *)
(* where the outcome is not fixed by this file: they either return or      *)
(* raise, and the model takes both outcomes.                               *)
(***************************************************************************)
EXTENDS Integers, Sequences, FiniteSets, TLC

\* ---------------------------------------------------------------- inputs
None == "None"
Unbound == "<unbound>"
\* value of a property setup has not assigned (numeric properties hold 0)
Unset == "<host default>"

\* documents that exist before the call, with their content
ExistingDocs == {"docA", "docB"}
NewDoc == "newDoc"
InitialContent(d) == IF d = "docB" THEN {"Box", "OldFace"} ELSE {}

\* solver-type selectors tried: the two recognised ones and others
SolverTypes == {"calculix", "ccxtools", "elmer", "z88", ""}
Recognized == {"calculix", "ccxtools"}
Omitted == "<omitted>"

\* variant: the default selector is the other solver
DefaultSolverType_Calculix == "calculix"

\* line 66: default of the parameter solvertype
DefaultSolverType == "ccxtools"

\* line 66: binding of a parameter that has a default
Bind(arg, default) == IF arg = Omitted THEN default ELSE arg

\* variant: a new document is made whatever was passed in
NeedsNewDoc_Always(d) == TRUE

\* line 69: doc is None
NeedsNewDoc(d) == d = None

\* names the geometric kernel may give the three faces of the cylinder
FaceNames == {"Face", "Face001", "Face002", "Face003"}
StandardFaces == {"Face", "Face001", "Face002"}
KernelNamings ==
    { StandardFaces,
      {"Face001", "Face002", "Face003"},
      {"Face", "Face002", "Face003"},
      {"Face", "Face001", "Face003"} }

\* objects whose shape is a single face
IsFace(n) == n \in FaceNames \cup {"OldFace"}

\* ----------------------------------------------------------------- state
VARIABLES
    docArg,       \* argument doc (None when omitted)
    stArg,        \* argument solvertype, or Omitted
    solvertype,   \* parameter solvertype as bound in setup
    GuiUp,        \* FreeCAD.GuiUp
    kernelFaces,  \* names Draft.downgrade gives the faces
    pc,           \* position in setup
    doc,          \* local variable doc
    docObjs,      \* document handle -> names of the objects it holds
    cyl,          \* Radius / Height of cyl_obj
    views,        \* number of view manipulations done
    analysis,     \* local variable analysis
    members,      \* analysis.Group
    solver_obj,   \* local variable solver_obj
    solver,       \* properties of the solver object
    material,     \* material_obj.Material as stored on the object
    mat,          \* local variable mat
    con,          \* properties of con_disp_xyz
    thickness,    \* thickness of geo_thickness
    femmesh,      \* properties of femmesh_obj
    calls,        \* calls issued to the host so far, in order
    console,      \* lines printed to FreeCAD.Console
    error,        \* exception that left setup, if any
    returned      \* value returned by setup

inputs == <<docArg, stArg, solvertype, GuiUp, kernelFaces>>
objvars == <<cyl, views, solver, material, mat, con, thickness, femmesh>>
vars == <<docArg, stArg, solvertype, GuiUp, kernelFaces, pc, doc, docObjs, cyl,
          views, analysis, members, solver_obj, solver, material, mat, con,
          thickness, femmesh, calls, console, error, returned>>

\* ---------------------------------------------------------------- helpers
Put(m, k, v) == [x \in DOMAIN m \cup {k} |-> IF x = k THEN v ELSE m[x]]

EmptyMap == [x \in {} |-> ""]

Called(fn, arg) == \E i \in 1..Len(calls) : calls[i] = <<fn, arg>>

CountCalls(fn, arg) == Cardinality({i \in 1..Len(calls) : calls[i] = <<fn, arg>>})

Log(fn, arg) == calls' = Append(calls, <<fn, arg>>)

Goto(l) == pc' = l /\ error' = error

Raise(e) == pc' = "raised" /\ error' = e

\* doc.addObject(type, name)
DocAdd(name) == docObjs' = [docObjs EXCEPT ![doc] = @ \cup {name}]

\* doc.removeObject(name)
DocRemove(name) == docObjs' = [docObjs EXCEPT ![doc] = @ \ {name}]

InGroup(name) == \E i \in 1..Len(members) : members[i] = name

\* analysis.addObject(obj): an object already in Group is not added again
GroupAdd(name) ==
    members' = IF InGroup(name) THEN members ELSE Append(members, name)

\* outcomes of a call into the host that can fail
HostOutcomes == {"ok", "raise"}

\* variant: the error of the host call is caught and setup goes on
Propagate_Caught(outcome, next, e) == pc' = next /\ error' = (IF outcome = "ok" THEN error ELSE e)

\* a host call that is not inside any try block: its error leaves setup
Propagate(outcome, next, e) == IF outcome = "ok" THEN Goto(next) ELSE Raise(e)

\* doc.recompute(): returns or raises
Recompute(next) ==
    /\ Log("recompute", "")
    /\ \E out \in HostOutcomes : Propagate(out, next, "RecomputeError")

\* ------------------------------------------------------------------ Init
SolverDefaults ==
    [ WorkingDir |-> Unset, SplitInputWriter |-> Unset, AnalysisType |-> Unset,
      GeometricalNonlinearity |-> Unset, ThermoMechSteadyState |-> Unset,
      MatrixSolverType |-> Unset, IterationsControlParameterTimeUse |-> Unset,
      EigenmodesCount |-> 0, EigenmodeHighLimit |-> Unset,
      EigenmodeLowLimit |-> Unset ]

ConstraintDefaults ==
    [ References |-> <<>>,
      xFix |-> FALSE, xFree |-> TRUE, xDisplacement |-> Unset,
      yFix |-> FALSE, yFree |-> TRUE, yDisplacement |-> Unset,
      zFix |-> FALSE, zFree |-> TRUE, zDisplacement |-> Unset ]

MeshDefaults ==
    [ Part |-> Unset, ElementDimension |-> Unset, ElementOrder |-> Unset,
      Algorithm2D |-> Unset, RecombinationAlgorithm |-> Unset,
      HighOrderOptimize |-> Unset, RecombineAll |-> Unset,
      SecondOrderLinear |-> Unset, CharacteristicLengthMax |-> Unset,
      Meshed |-> FALSE ]

Init ==
    /\ docArg \in ExistingDocs \cup {None}
    /\ stArg \in SolverTypes \cup {Omitted}
    /\ solvertype = Bind(stArg, DefaultSolverType)
    /\ GuiUp \in BOOLEAN
    /\ kernelFaces \in KernelNamings
    /\ pc = "enter"
    /\ doc = docArg
    /\ docObjs = [d \in ExistingDocs |-> InitialContent(d)]
    /\ cyl = [Radius |-> 0, Height |-> 0]
    /\ views = 0
    /\ analysis = Unbound
    /\ members = <<>>
    /\ solver_obj = Unbound
    /\ solver = SolverDefaults
    /\ material = EmptyMap
    /\ mat = EmptyMap
    /\ con = ConstraintDefaults
    /\ thickness = 0
    /\ femmesh = MeshDefaults
    /\ calls = <<>>
    /\ console = <<>>
    /\ error = "none"
    /\ returned = Unbound

\* --------------------------------------------------------------- actions
\* lines 69-70
InitDoc ==
    /\ pc = "enter"
    /\ IF NeedsNewDoc(doc)
       THEN /\ doc' = NewDoc
            /\ docObjs' = [d \in DOMAIN docObjs \cup {NewDoc} |->
                              IF d = NewDoc THEN {} ELSE docObjs[d]]
            /\ Log("init_doc", "")
       ELSE UNCHANGED <<doc, docObjs, calls>>
    /\ Goto("explanation")
    /\ UNCHANGED <<inputs, objvars, analysis, members, solver_obj, console, returned>>

\* lines 74-76
AddExplanation ==
    /\ pc = "explanation"
    /\ DocAdd("Explanation_Report")
    /\ Log("add_explanation_obj", "")
    /\ Goto("cylinder")
    /\ UNCHANGED <<inputs, objvars, doc, analysis, members, solver_obj, console, returned>>

\* lines 80-82
MakeCylinder ==
    /\ pc = "cylinder"
    /\ DocAdd("Cylinder")
    /\ cyl' = [Radius |-> 5000, Height |-> 5000]
    /\ Log("addObject", "Cylinder")
    /\ Goto("recompute1")
    /\ UNCHANGED <<inputs, views, solver, material, mat, con, thickness, femmesh,
                   doc, analysis, members, solver_obj, console, returned>>

\* line 83
RecomputeCylinder ==
    /\ pc = "recompute1"
    /\ Recompute("view")
    /\ UNCHANGED <<inputs, objvars, doc, docObjs, analysis, members, solver_obj,
                   console, returned>>

\* lines 84-86
FitView ==
    /\ pc = "view"
    /\ views' = IF GuiUp THEN views + 2 ELSE views
    /\ Goto("downgrade")
    /\ UNCHANGED <<inputs, cyl, solver, material, mat, con, thickness, femmesh,
                   doc, docObjs, analysis, members, solver_obj, calls, console,
                   returned>>

\* variant: downgrade called with delete=False
Downgraded_Keep(objs, faces) == objs \cup faces

\* line 89: Draft.downgrade(cyl_obj, delete=True)
Downgraded(objs, faces) == (objs \ {"Cylinder"}) \cup faces

\* line 89
Downgrade ==
    /\ pc = "downgrade"
    /\ docObjs' = [docObjs EXCEPT ![doc] = Downgraded(@, kernelFaces)]
    /\ Log("downgrade", "Cylinder")
    /\ Goto("remove1")
    /\ UNCHANGED <<inputs, objvars, doc, analysis, members, solver_obj, console,
                   returned>>

\* lines 90 and 91: doc.removeObject(name)
RemoveObject(name, next) ==
    /\ Log("removeObject", name)
    /\ IF name \in docObjs[doc]
       THEN DocRemove(name) /\ Goto(next)
       ELSE UNCHANGED docObjs /\ Raise("LookupError")
    /\ UNCHANGED <<inputs, objvars, doc, analysis, members, solver_obj, console,
                   returned>>

\* line 90
RemoveFace001 == pc = "remove1" /\ RemoveObject("Face001", "remove2")

\* line 91
RemoveFace002 == pc = "remove2" /\ RemoveObject("Face002", "recompute2")

\* line 92
RecomputeShell ==
    /\ pc = "recompute2"
    /\ Recompute("analysis")
    /\ UNCHANGED <<inputs, objvars, doc, docObjs, analysis, members, solver_obj,
                   console, returned>>

\* line 95
MakeAnalysis ==
    /\ pc = "analysis"
    /\ DocAdd("Analysis")
    /\ analysis' = "Analysis"
    /\ Log("makeAnalysis", "Analysis")
    /\ Goto("solver")
    /\ UNCHANGED <<inputs, objvars, doc, members, solver_obj, console, returned>>

\* the warning text of lines 105-106
WarningText == "Not known or not supported solver type. No solver object was created."

\* lines 98-107
MakeSolver ==
    /\ pc = "solver"
    /\ IF solvertype = "calculix"
       THEN /\ solver_obj' = "SolverCalculiX"
            /\ DocAdd("SolverCalculiX")
            /\ Log("makeSolver", "SolverCalculiX")
            /\ UNCHANGED <<solver, console>>
       ELSE IF solvertype = "ccxtools"
       THEN /\ solver_obj' = "CalculiXccxTools"
            /\ DocAdd("CalculiXccxTools")
            /\ Log("makeSolver", "CalculiXccxTools")
            /\ solver' = [solver EXCEPT !.WorkingDir = ""]
            /\ UNCHANGED console
       ELSE /\ console' = Append(console, WarningText)
            /\ Log("PrintWarning", solvertype)
            /\ UNCHANGED <<solver_obj, docObjs, solver>>
    /\ Goto("solver_config")
    /\ UNCHANGED <<inputs, cyl, views, material, mat, con, thickness, femmesh,
                   doc, analysis, members, returned>>

\* variant: the analysis type is left at static
ConfiguredSolver_Static(s) ==
    [s EXCEPT
        !.SplitInputWriter = "False",
        !.AnalysisType = "static",
        !.GeometricalNonlinearity = "linear",
        !.ThermoMechSteadyState = "False",
        !.MatrixSolverType = "default",
        !.IterationsControlParameterTimeUse = "False",
        !.EigenmodesCount = 10,
        !.EigenmodeHighLimit = "1000000.0",
        !.EigenmodeLowLimit = "0.01"]

\* lines 109-117
ConfiguredSolver(s) ==
    [s EXCEPT
        !.SplitInputWriter = "False",
        !.AnalysisType = "frequency",
        !.GeometricalNonlinearity = "linear",
        !.ThermoMechSteadyState = "False",
        !.MatrixSolverType = "default",
        !.IterationsControlParameterTimeUse = "False",
        !.EigenmodesCount = 10,
        !.EigenmodeHighLimit = "1000000.0",
        !.EigenmodeLowLimit = "0.01"]

\* lines 108-117
ConfigureSolver ==
    /\ pc = "solver_config"
    /\ IF solvertype = "calculix" \/ solvertype = "ccxtools"
       THEN solver' = ConfiguredSolver(solver)
       ELSE UNCHANGED solver
    /\ Goto("solver_add")
    /\ UNCHANGED <<inputs, cyl, views, material, mat, con, thickness, femmesh,
                   doc, docObjs, analysis, members, solver_obj, calls, console,
                   returned>>

\* line 118: analysis.addObject(solver_obj)
AddSolver ==
    /\ pc = "solver_add"
    /\ IF solver_obj = Unbound
       THEN /\ Raise("UnboundLocalError")
            /\ UNCHANGED <<members, calls>>
       ELSE /\ GroupAdd(solver_obj)
            /\ Log("analysis.addObject", solver_obj)
            /\ Goto("material")
    /\ UNCHANGED <<inputs, objvars, doc, docObjs, analysis, solver_obj, console,
                   returned>>

\* lines 121-124: the object is made, added, taken back as element 0 of the
\* list of added objects, and its Material mapping is copied into mat
MakeMaterial ==
    /\ pc = "material"
    /\ DocAdd("MechanicalMaterial")
    /\ Log("analysis.addObject", "MechanicalMaterial")
    /\ GroupAdd("MechanicalMaterial")
    /\ IF InGroup("MechanicalMaterial")
       THEN Raise("IndexError") /\ UNCHANGED mat
       ELSE Goto("material_fill") /\ mat' = material
    /\ UNCHANGED <<inputs, cyl, views, solver, material, con, thickness, femmesh,
                   doc, analysis, solver_obj, console, returned>>

\* lines 125-128
FilledMaterial(m) ==
    Put(Put(Put(Put(m, "Name", "Steel-Generic"),
                "YoungsModulus", "210 GPa"),
            "PoissonRatio", "0.30"),
        "Density", "7900 kg/m^3")

\* lines 125-128
FillMaterial ==
    /\ pc = "material_fill"
    /\ mat' = FilledMaterial(mat)
    /\ Goto("material_store")
    /\ UNCHANGED <<inputs, cyl, views, solver, material, con, thickness, femmesh,
                   doc, docObjs, analysis, members, solver_obj, calls, console,
                   returned>>

\* variant: the local mapping is never assigned back
StoredMaterial_Dropped(old, new) == old

\* line 129: material_obj.Material = mat
StoredMaterial(old, new) == new

\* line 129
StoreMaterial ==
    /\ pc = "material_store"
    /\ material' = StoredMaterial(material, mat)
    /\ Goto("material_add")
    /\ UNCHANGED <<inputs, cyl, views, solver, mat, con, thickness, femmesh,
                   doc, docObjs, analysis, members, solver_obj, calls, console,
                   returned>>

\* line 130
AddMaterialAgain ==
    /\ pc = "material_add"
    /\ GroupAdd("MechanicalMaterial")
    /\ Log("analysis.addObject", "MechanicalMaterial")
    /\ Goto("constraint")
    /\ UNCHANGED <<inputs, objvars, doc, docObjs, analysis, solver_obj, console,
                   returned>>

\* line 133
MakeConstraint ==
    /\ pc = "constraint"
    /\ DocAdd("Fix_Z")
    /\ Log("makeConstraintDisplacement", "Fix_Z")
    /\ Goto("constraint_refs")
    /\ UNCHANGED <<inputs, objvars, doc, analysis, members, solver_obj, console,
                   returned>>

\* line 134: doc.Face is looked up by name in the document
SetReferences ==
    /\ pc = "constraint_refs"
    /\ Log("doc.Face", "Fix_Z")
    /\ IF "Face" \in docObjs[doc]
       THEN /\ con' = [con EXCEPT !.References = << <<"Face", "Edge2">> >>]
            /\ Goto("constraint_axes")
       ELSE /\ UNCHANGED con
            /\ Raise("LookupError")
    /\ UNCHANGED <<inputs, cyl, views, solver, material, mat, thickness, femmesh,
                   doc, docObjs, analysis, members, solver_obj, console, returned>>

\* variant: zFree is not cleared when z is fixed
AxisSettings_ZFreeKept(c) ==
    [c EXCEPT
        !.xFix = FALSE, !.xFree = TRUE, !.xDisplacement = "0.0",
        !.yFix = FALSE, !.yFree = TRUE, !.yDisplacement = "0.0",
        !.zFix = TRUE, !.zDisplacement = "0.0"]

\* lines 135-143
AxisSettings(c) ==
    [c EXCEPT
        !.xFix = FALSE, !.xFree = TRUE, !.xDisplacement = "0.0",
        !.yFix = FALSE, !.yFree = TRUE, !.yDisplacement = "0.0",
        !.zFix = TRUE, !.zFree = FALSE, !.zDisplacement = "0.0"]

\* lines 135-143
SetAxes ==
    /\ pc = "constraint_axes"
    /\ con' = AxisSettings(con)
    /\ Goto("constraint_add")
    /\ UNCHANGED <<inputs, cyl, views, solver, material, mat, thickness, femmesh,
                   doc, docObjs, analysis, members, solver_obj, calls, console,
                   returned>>

\* line 144
AddConstraint ==
    /\ pc = "constraint_add"
    /\ GroupAdd("Fix_Z")
    /\ Log("analysis.addObject", "Fix_Z")
    /\ Goto("thickness")
    /\ UNCHANGED <<inputs, objvars, doc, docObjs, analysis, solver_obj, console,
                   returned>>

\* variant: the thickness object is made but not added to the analysis
AddThickness_NotAdded ==
    /\ pc = "thickness"
    /\ DocAdd("ElementGeometry2D")
    /\ thickness' = 10
    /\ Goto("mesh")
    /\ UNCHANGED <<inputs, cyl, views, solver, material, mat, con, femmesh,
                   doc, analysis, members, solver_obj, calls, console, returned>>

\* lines 147-148
AddThickness ==
    /\ pc = "thickness"
    /\ DocAdd("ElementGeometry2D")
    /\ thickness' = 10
    /\ GroupAdd("ElementGeometry2D")
    /\ Log("analysis.addObject", "ElementGeometry2D")
    /\ Goto("mesh")
    /\ UNCHANGED <<inputs, cyl, views, solver, material, mat, con, femmesh,
                   doc, analysis, solver_obj, console, returned>>

\* line 151
MakeMesh ==
    /\ pc = "mesh"
    /\ DocAdd("Cylinder_Shell_Mesh")
    /\ Log("makeMeshGmsh", "Cylinder_Shell_Mesh")
    /\ Goto("mesh_part")
    /\ UNCHANGED <<inputs, objvars, doc, analysis, members, solver_obj, console,
                   returned>>

\* line 152
SetMeshPart ==
    /\ pc = "mesh_part"
    /\ Log("doc.Face", "Cylinder_Shell_Mesh")
    /\ IF "Face" \in docObjs[doc]
       THEN /\ femmesh' = [femmesh EXCEPT !.Part = "Face"]
            /\ Goto("mesh_params")
       ELSE /\ UNCHANGED femmesh
            /\ Raise("LookupError")
    /\ UNCHANGED <<inputs, cyl, views, solver, material, mat, con, thickness,
                   doc, docObjs, analysis, members, solver_obj, console, returned>>

\* variant: the mesher is never run on the mesh object
SetMeshParams_NoMesher ==
    /\ pc = "mesh_params"
    /\ femmesh' = [femmesh EXCEPT
            !.ElementDimension = "2D",
            !.ElementOrder = "2nd",
            !.Algorithm2D = "Packing Parallelograms",
            !.RecombinationAlgorithm = "Simple",
            !.HighOrderOptimize = "Optimization",
            !.RecombineAll = "True",
            !.SecondOrderLinear = "True",
            !.CharacteristicLengthMax = "300.0 mm"]
    /\ Goto("mesh_add")
    /\ UNCHANGED <<inputs, cyl, views, solver, material, mat, con, thickness,
                   doc, docObjs, analysis, members, solver_obj, calls, console,
                   returned>>

\* lines 153-160
SetMeshParams ==
    /\ pc = "mesh_params"
    /\ femmesh' = [femmesh EXCEPT
            !.ElementDimension = "2D",
            !.ElementOrder = "2nd",
            !.Algorithm2D = "Packing Parallelograms",
            !.RecombinationAlgorithm = "Simple",
            !.HighOrderOptimize = "Optimization",
            !.RecombineAll = "True",
            !.SecondOrderLinear = "True",
            !.CharacteristicLengthMax = "300.0 mm"]
    /\ Goto("mesh_create")
    /\ UNCHANGED <<inputs, cyl, views, solver, material, mat, con, thickness,
                   doc, docObjs, analysis, members, solver_obj, calls, console,
                   returned>>

\* what GmshTools.create_mesh() can do: return an empty status, return an
\* error text, or raise
MeshOutcomes == {"", "gmsh error text", "raise"}

\* lines 162-164
CreateMesh ==
    /\ pc = "mesh_create"
    /\ Log("create_mesh", "Cylinder_Shell_Mesh")
    /\ \E out \in MeshOutcomes :
          /\ Propagate(IF out = "raise" THEN "raise" ELSE "ok", "mesh_add", "MeshError")
          /\ IF out = "raise"
             THEN UNCHANGED <<femmesh, console>>
             ELSE /\ femmesh' = [femmesh EXCEPT !.Meshed = (out = "")]
                  /\ console' = Append(console, out)
    /\ UNCHANGED <<inputs, cyl, views, solver, material, mat, con, thickness,
                   doc, docObjs, analysis, members, solver_obj, returned>>

\* line 166
AddMesh ==
    /\ pc = "mesh_add"
    /\ GroupAdd("Cylinder_Shell_Mesh")
    /\ Log("analysis.addObject", "Cylinder_Shell_Mesh")
    /\ Goto("recompute3")
    /\ UNCHANGED <<inputs, objvars, doc, docObjs, analysis, solver_obj, console,
                   returned>>

\* line 167
RecomputeFinal ==
    /\ pc = "recompute3"
    /\ Recompute("return")
    /\ UNCHANGED <<inputs, objvars, doc, docObjs, analysis, members, solver_obj,
                   console, returned>>

\* line 168
Return ==
    /\ pc = "return"
    /\ returned' = doc
    /\ Goto("done")
    /\ UNCHANGED <<inputs, objvars, doc, docObjs, analysis, members, solver_obj,
                   calls, console>>

Next ==
    \/ InitDoc
    \/ AddExplanation
    \/ MakeCylinder
    \/ RecomputeCylinder
    \/ FitView
    \/ Downgrade
    \/ RemoveFace001
    \/ RemoveFace002
    \/ RecomputeShell
    \/ MakeAnalysis
    \/ MakeSolver
    \/ ConfigureSolver
    \/ AddSolver
    \/ MakeMaterial
    \/ FillMaterial
    \/ StoreMaterial
    \/ AddMaterialAgain
    \/ MakeConstraint
    \/ SetReferences
    \/ SetAxes
    \/ AddConstraint
    \/ AddThickness
    \/ MakeMesh
    \/ SetMeshPart
    \/ SetMeshParams
    \/ CreateMesh
    \/ AddMesh
    \/ RecomputeFinal
    \/ Return

Spec == Init /\ [][Next]_vars

\* ------------------------------------------------------------ properties
Members == {members[i] : i \in 1..Len(members)}

SolverNames == {"SolverCalculiX", "CalculiXccxTools"}

SolverMembers == {i \in 1..Len(members) : members[i] \in SolverNames}

HostErrors == {"RecomputeError", "MeshError", "LookupError"}

\* content of the document passed in, before the call
Before == IF docArg = None THEN {} ELSE InitialContent(docArg)

FacesOf(d) == {n \in docObjs[d] : IsFace(n)}

MeshName == "Cylinder_Shell_Mesh"

CallsBefore(fn, arg, i) == \E j \in 1..(i-1) : calls[j] = <<fn, arg>>

\* C1: for every solvertype other than "calculix" and "ccxtools", setup is
\* non-fatal: no error is raised by setup itself, and when it ends it has
\* recorded one warning, has run the material, constraint, thickness and mesh
\* steps and the final recompute, the analysis has no solver member, and the
\* document handle is returned.
C1_UnknownSolverNonFatal ==
    solvertype \notin Recognized =>
        /\ error \in {"none"} \cup HostErrors
        /\ pc = "done" =>
              /\ console # <<>> /\ console[1] = WarningText
              /\ CountCalls("PrintWarning", solvertype) = 1
              /\ SolverMembers = {}
              /\ {"MechanicalMaterial", "Fix_Z", "ElementGeometry2D", MeshName}
                    \subseteq Members
              /\ calls[Len(calls)] = <<"recompute", "">>
              /\ returned = doc

\* C2: after setup(doc, "calculix") returns, the analysis holds exactly one
\* solver object and that solver's AnalysisType is "frequency".
C2_CalculixOneFrequencySolver ==
    (pc = "done" /\ stArg = "calculix") =>
        /\ Cardinality(SolverMembers) = 1
        /\ Members \cap SolverNames = {"SolverCalculiX"}
        /\ solver_obj = "SolverCalculiX"
        /\ solver.AnalysisType = "frequency"

C2_Witness == pc = "done" /\ stArg = "calculix" /\ InGroup("SolverCalculiX")

\* C3: after setup returns with solvertype "ccxtools", given or taken as the
\* default of an omitted argument, the solver object of the analysis has
\* WorkingDir "" and EigenmodesCount 10.
C3_CcxtoolsWorkingDirAndModes ==
    (pc = "done" /\ stArg \in {"ccxtools", Omitted}) =>
        /\ solver_obj = "CalculiXccxTools"
        /\ Members \cap SolverNames = {"CalculiXccxTools"}
        /\ solver.WorkingDir = ""
        /\ solver.EigenmodesCount = 10

C3_Witness == pc = "done" /\ stArg = Omitted /\ InGroup("CalculiXccxTools")

\* the prune step (lines 89-91) has run to its end
PruneDone == Called("removeObject", "Face002") /\ error # "LookupError"

\* C4 as stated: when the downgrade yields Face, Face001 and Face002, from
\* the end of the prune step on the document holds exactly one face object,
\* named Face, and holds neither Cylinder nor Face001 nor Face002.
C4_ExactlyOneFaceInDocument ==
    (kernelFaces = StandardFaces /\ PruneDone) =>
        /\ FacesOf(doc) = {"Face"}
        /\ {"Cylinder", "Face001", "Face002"} \cap docObjs[doc] = {}

\* C4 amended: when the downgrade yields Face, Face001 and Face002, from the
\* end of the prune step on the only face object the document holds besides
\* those it held before the call is Face, and it holds neither Cylinder nor
\* Face001 nor Face002.
C4_OneFaceProduced ==
    (kernelFaces = StandardFaces /\ PruneDone) =>
        /\ FacesOf(doc) \ Before = {"Face"}
        /\ Before \subseteq docObjs[doc]
        /\ {"Cylinder", "Face001", "Face002"} \cap docObjs[doc] = {}

C4_Witness ==
    /\ pc = "done" /\ kernelFaces = StandardFaces
    /\ docArg = "docB" /\ FacesOf(doc) = {"Face", "OldFace"}

\* C5: the displacement constraint that setup adds to the analysis refers to
\* exactly the sub-shape Edge2 of the surviving Face object, fixes z with
\* displacement 0.0, leaves x and y free, and on each axis exactly one of the
\* flags fixed and free is set.
C5_ConstraintFixesZOnEdge2 ==
    InGroup("Fix_Z") =>
        /\ con.References = << <<"Face", "Edge2">> >>
        /\ "Face" \in docObjs[doc]
        /\ con.zFix /\ con.zDisplacement = "0.0"
        /\ ~con.xFix /\ ~con.yFix /\ con.xFree /\ con.yFree
        /\ con.xFix # con.xFree
        /\ con.yFix # con.yFree
        /\ con.zFix # con.zFree

C5_Witness == pc = "done" /\ InGroup("Fix_Z") /\ con.zFix

SteelGeneric ==
    [k \in {"Name", "YoungsModulus", "PoissonRatio", "Density"} |->
        CASE k = "Name" -> "Steel-Generic"
          [] k = "YoungsModulus" -> "210 GPa"
          [] k = "PoissonRatio" -> "0.30"
          [] k = "Density" -> "7900 kg/m^3"]

\* C6: after setup returns, the material object that is a member of the
\* analysis stores YoungsModulus "210 GPa", PoissonRatio "0.30", Density
\* "7900 kg/m^3" and Name "Steel-Generic": what was written to the local
\* copy of the mapping is stored on the object.
C6_MaterialStored ==
    pc = "done" =>
        /\ InGroup("MechanicalMaterial")
        /\ "MechanicalMaterial" \in docObjs[doc]
        /\ material = SteelGeneric
        /\ material = mat

C6_Witness == pc = "done" /\ DOMAIN mat # {} /\ InGroup("MechanicalMaterial")

\* C7: when setup completes it returns the document it built the model in.
\* A document passed in is the one changed and returned, and init_doc is
\* not called; init_doc is called only when doc is None, exactly once, and
\* the new document is returned.  No other document is changed.
C7_ReturnsTheDocument ==
    /\ Called("init_doc", "") => docArg = None
    /\ pc = "done" =>
          /\ returned = doc
          /\ "Analysis" \in docObjs[returned]
          /\ docArg # None =>
                /\ returned = docArg
                /\ CountCalls("init_doc", "") = 0
          /\ docArg = None =>
                /\ returned = NewDoc
                /\ CountCalls("init_doc", "") = 1
          /\ \A d \in ExistingDocs \ {returned} : docObjs[d] = InitialContent(d)

C7_Witness == pc = "done" /\ docArg = "docB" /\ returned = "docB"

\* C8: an error raised by the mesher or by a document recompute is not
\* caught and the call is not repeated: setup ends with that error, the
\* failing call is the last call made, nothing is returned, and after a
\* raised meshing failure the mesh object is not in the analysis.
C8_HostErrorsPropagate ==
    error \in {"RecomputeError", "MeshError"} =>
        /\ pc = "raised"
        /\ returned = Unbound
        /\ error = "MeshError" =>
              /\ calls[Len(calls)] = <<"create_mesh", MeshName>>
              /\ CountCalls("create_mesh", MeshName) = 1
              /\ ~InGroup(MeshName)
        /\ error = "RecomputeError" =>
              /\ calls[Len(calls)] = <<"recompute", "">>
              /\ Len(calls) > 1 => calls[Len(calls) - 1] # <<"recompute", "">>

C8_Witness == error = "MeshError" /\ pc = "raised" /\ femmesh.Part = "Face"

\* C9: the steps run in a fixed order on state already built: the analysis
\* exists before anything is added to it; the constraint and the mesh take
\* their reference to Face after Face001 and Face002 were removed; the
\* mesher runs once, after Part and the meshing parameters of the mesh
\* object are set and before the mesh object is added to the analysis; the
\* last call before the return is a recompute.
C9_StepOrder ==
    /\ \A i \in 1..Len(calls) :
          /\ calls[i][1] = "analysis.addObject" =>
                CallsBefore("makeAnalysis", "Analysis", i)
          /\ calls[i][1] = "doc.Face" =>
                /\ CallsBefore("removeObject", "Face001", i)
                /\ CallsBefore("removeObject", "Face002", i)
          /\ calls[i] = <<"create_mesh", MeshName>> =>
                CallsBefore("doc.Face", MeshName, i)
          /\ calls[i] = <<"analysis.addObject", MeshName>> =>
                CallsBefore("create_mesh", MeshName, i)
    /\ Members # {} => analysis = "Analysis" /\ "Analysis" \in docObjs[doc]
    /\ (con.References # <<>> \/ femmesh.Part # Unset) =>
          {"Face001", "Face002"} \cap docObjs[doc] = {}
    /\ CountCalls("create_mesh", MeshName) <= 1
    /\ Called("create_mesh", MeshName) =>
          /\ femmesh.Part = "Face"
          /\ femmesh.ElementDimension = "2D"
          /\ femmesh.CharacteristicLengthMax = "300.0 mm"
    /\ pc = "done" =>
          /\ CountCalls("create_mesh", MeshName) = 1
          /\ calls[Len(calls)] = <<"recompute", "">>

C9_Witness ==
    /\ pc = "done" /\ InGroup(MeshName) /\ InGroup("Fix_Z")
    /\ Called("create_mesh", MeshName)

\* C10: for solvertype "calculix" or "ccxtools", after setup returns the
\* members of the analysis are the solver, the material, the constraint,
\* the thickness and the mesh object, each once and each an object of the
\* document, although the material object was passed to addObject twice.
C10_FiveMembers ==
    (pc = "done" /\ solvertype \in Recognized) =>
        /\ Members = {solver_obj, "MechanicalMaterial", "Fix_Z",
                      "ElementGeometry2D", MeshName}
        /\ solver_obj \in SolverNames
        /\ Len(members) = 5
        /\ Members \subseteq docObjs[doc]
        /\ CountCalls("analysis.addObject", "MechanicalMaterial") = 2

C10_Witness ==
    /\ pc = "done" /\ solvertype \in Recognized
    /\ CountCalls("analysis.addObject", "MechanicalMaterial") = 2

====
